---- MODULE Spec2Model ----
(***************************************************************************)
(* CORS middleware of actix-cors (src/actix-cors/src/middleware.rs).       *)
(*                                                                         *)
(* A policy (Inner) is built once and shared read-only.  Each request goes *)
(* through CorsMiddleware::call: either the preflight branch answers it    *)
(* at once (handle_preflight), or its origin is validated and the request  *)
(* is forwarded to the wrapped service, whose response is then passed      *)
(* through augment_response when the request carried an Origin header.     *)
(*                                                                         *)
(* Header maps are functions from the (lower-case) names that are present  *)
(* to one value each.  An Option<T> is the empty sequence (None) or a      *)
(* one-element sequence (Some).  Origin header values are serialized       *)
(* origins (scheme://host[:port]), as browsers send them.                  *)
(***************************************************************************)
EXTENDS Naturals, Sequences, FiniteSets, TLC

VARIABLES inner, reqs

vars == <<inner, reqs>>

---------------------------------------------------------------------------
(* Header names (http::header constants; names are stored lower-case).     *)

ORIGIN == "origin"
DNT == "dnt"
VARY == "vary"
CONTENT_TYPE == "content-type"
ACCESS_CONTROL_REQUEST_METHOD == "access-control-request-method"
ACCESS_CONTROL_REQUEST_HEADERS == "access-control-request-headers"
ACCESS_CONTROL_ALLOW_ORIGIN == "access-control-allow-origin"
ACCESS_CONTROL_ALLOW_METHODS == "access-control-allow-methods"
ACCESS_CONTROL_ALLOW_HEADERS == "access-control-allow-headers"
ACCESS_CONTROL_ALLOW_CREDENTIALS == "access-control-allow-credentials"
ACCESS_CONTROL_EXPOSE_HEADERS == "access-control-expose-headers"
ACCESS_CONTROL_MAX_AGE == "access-control-max-age"

None == << >>

Some(v) == <<v>>

(* HeaderMap::get, ::insert and the empty map.                             *)
EmptyHeaders == [n \in {} |-> ""]

Get(h, n) == IF n \in DOMAIN h THEN Some(h[n]) ELSE None

Insert(h, n, v) == [k \in (DOMAIN h) \cup {n} |-> IF k = n THEN v ELSE h[k]]

(* Insert when the option holds a value, leave the map alone otherwise.    *)
InsertOpt(h, n, opt) == IF opt = None THEN h ELSE Insert(h, n, opt[1])

---------------------------------------------------------------------------
(* Input sets.                                                             *)

Origins == {"http://example.com", "http://evil.com"}

TrustedOrigins == {"http://example.com"}

Methods == {"GET", "OPTIONS"}

RequestMethodValues == {"GET", "DELETE"}

(* Access-Control-Request-Headers: a raw value is a list of at most        *)
(* MaxRequestedHeaders header names joined with ", ".  Splitting a raw     *)
(* value gives back its names, lower-cased (names compare                  *)
(* case-insensitively).                                                    *)
MaxRequestedHeaders == 2

RequestedNames == {"Content-Type", "x-secret"}

NameLists ==
    UNION {[1..n -> RequestedNames] : n \in 1..MaxRequestedHeaders}

RECURSIVE JoinNames(_)
JoinNames(names) ==
    IF Len(names) = 1 THEN names[1]
    ELSE names[1] \o ", " \o JoinNames(Tail(names))

RequestHeadersValues == {JoinNames(names) : names \in NameLists}

Lower(name) == IF name = "Content-Type" THEN "content-type" ELSE name

SplitTokens(raw) ==
    LET names == CHOOSE l \in NameLists : JoinNames(l) = raw
    IN  {Lower(names[k]) : k \in DOMAIN names}

Opt(S) == {None} \cup {Some(v) : v \in S}

MkHead(m, o, d, rm, rh) ==
    [method |-> m,
     headers |->
        InsertOpt(InsertOpt(InsertOpt(InsertOpt(EmptyHeaders,
            ORIGIN, o), DNT, d),
            ACCESS_CONTROL_REQUEST_METHOD, rm),
            ACCESS_CONTROL_REQUEST_HEADERS, rh)]

Heads ==
    {MkHead(m, o, d, rm, rh) :
        m \in Methods, o \in Opt(Origins), d \in Opt({"1"}),
        rm \in Opt(RequestMethodValues), rh \in Opt(RequestHeadersValues)}

---------------------------------------------------------------------------
(* HeaderValueCodec: tokens joined with ", " in lexicographic order.       *)

Lexicographic ==
    <<"DELETE", "GET", "OPTIONS", "POST",
      "accept", "access-control-allow-credentials",
      "access-control-allow-headers", "access-control-allow-methods",
      "access-control-allow-origin", "access-control-expose-headers",
      "access-control-max-age", "access-control-request-headers",
      "access-control-request-method", "content-length", "content-type",
      "dnt", "origin", "vary", "x-request-id", "x-secret">>

RECURSIVE JoinFrom(_, _)
JoinFrom(S, k) ==
    IF k > Len(Lexicographic) THEN ""
    ELSE IF Lexicographic[k] \in S
         THEN LET rest == JoinFrom(S, k + 1)
              IN  IF rest = "" THEN Lexicographic[k]
                  ELSE Lexicographic[k] \o ", " \o rest
         ELSE JoinFrom(S, k + 1)

intersperse_header_values(S) == JoinFrom(S, 1)

---------------------------------------------------------------------------
(* The policy (Inner).                                                     *)

OriginPolicies ==
    {[kind |-> "AllowAll", list |-> {}, fn |-> "none"],
     [kind |-> "AllowList", list |-> TrustedOrigins, fn |-> "none"],
     [kind |-> "AllowByPredicate", list |-> {}, fn |-> "has_dnt"],
     [kind |-> "AllowByPredicate", list |-> {}, fn |-> "trusted_with_dnt"]}

All == [all |-> TRUE, some |-> {}]

SomeOf(S) == [all |-> FALSE, some |-> S]

Baked(allOrSome) ==
    IF allOrSome.all \/ allOrSome.some = {} THEN None
    ELSE Some(intersperse_header_values(allOrSome.some))

MkInner(o, c, v, p, e, h, a) ==
    [allowed_origins |-> o,
     allowed_methods |-> {"GET", "POST"},
     allowed_methods_baked |-> Baked(SomeOf({"GET", "POST"})),
     allowed_headers |-> h,
     allowed_headers_baked |-> Baked(h),
     expose_headers |-> e,
     expose_headers_baked |-> Baked(e),
     supports_credentials |-> c,
     max_age |-> a,
     vary_header |-> v,
     preflight |-> p]

Policies ==
    {MkInner(o, c, v, p, e, h, a) :
        o \in OriginPolicies, c \in BOOLEAN, v \in BOOLEAN, p \in BOOLEAN,
        e \in {All, SomeOf({"content-length", "x-request-id"})},
        h \in {All, SomeOf({"accept", "content-type"})},
        a \in Opt({3600})}

---------------------------------------------------------------------------
(* PolicyEvaluator (Inner's checks).  Each returns "Ok" or the rejection.  *)

Ok == "Ok"

(* The caller-supplied origin predicates fn(origin, head).                 *)
ApplyFn(fn, origin, head) ==
    CASE fn = "has_dnt" -> DNT \in DOMAIN head.headers
      [] fn = "trusted_with_dnt" ->
            origin \in TrustedOrigins /\ DNT \in DOMAIN head.headers
      [] OTHER -> FALSE

validate_origin(in, head) ==
    LET origin == Get(head.headers, ORIGIN)
        policy == in.allowed_origins
    IN  IF origin = None THEN Ok
        ELSE CASE policy.kind = "AllowAll" -> Ok
               [] policy.kind = "AllowList" ->
                     IF origin[1] \in policy.list THEN Ok
                     ELSE "OriginNotAllowed"
               [] OTHER ->
                     IF ApplyFn(policy.fn, origin[1], head) THEN Ok
                     ELSE "OriginNotAllowed"

validate_allowed_method(in, head) ==
    LET method == Get(head.headers, ACCESS_CONTROL_REQUEST_METHOD)
    IN  IF method # None /\ method[1] \in in.allowed_methods THEN Ok
        ELSE "MethodNotAllowed"

validate_allowed_headers(in, head) ==
    LET hdrs == Get(head.headers, ACCESS_CONTROL_REQUEST_HEADERS)
    IN  IF in.allowed_headers.all \/ hdrs = None THEN Ok
        ELSE IF SplitTokens(hdrs[1]) \subseteq in.allowed_headers.some THEN Ok
        ELSE "HeaderNotAllowed"

(* Origin resolution: the value of Access-Control-Allow-Origin.            *)
access_control_allow_origin(in, head) ==
    LET origin == Get(head.headers, ORIGIN)
    IN  IF in.allowed_origins.kind = "AllowAll" /\ ~in.supports_credentials
        THEN Some("*")
        ELSE origin

---------------------------------------------------------------------------
(* Responses and results.                                                  *)

Response(status, headers, error) ==
    [status |-> status, headers |-> headers, error |-> error]

NoResponse == Response(0, EmptyHeaders, "")

(* req.error_response(err): the host's rendering of a rejection.           *)
error_response(err) == Response(400, EmptyHeaders, err)

OkResult(res) == [ok |-> TRUE, res |-> res, err |-> ""]

ErrResult(err) == [ok |-> FALSE, res |-> NoResponse, err |-> err]

(* What the wrapped service may answer.                                    *)
DownstreamResponses ==
    {Response(st,
        InsertOpt(InsertOpt(
            IF cors
            THEN Insert(Insert(Insert(EmptyHeaders,
                    ACCESS_CONTROL_ALLOW_ORIGIN, "*"),
                    ACCESS_CONTROL_ALLOW_CREDENTIALS, "true"),
                    ACCESS_CONTROL_EXPOSE_HEADERS, "x-old")
            ELSE EmptyHeaders,
            VARY, vy), CONTENT_TYPE, ct),
        "") :
        st \in {200, 404}, cors \in BOOLEAN,
        vy \in Opt({"Accept"}), ct \in Opt({"text/plain"})}

ServiceResults ==
    {OkResult(r) : r \in DownstreamResponses} \cup {ErrResult("ServiceError")}

---------------------------------------------------------------------------
(* CorsMiddleware::handle_preflight.                                       *)

(* The validation chain: which checks ran, and the first rejection.        *)
(* Variant: the requested method is validated before the origin.          *)
preflight_checks_method_first(in, head) ==
    LET o == validate_origin(in, head)
        m == validate_allowed_method(in, head)
        h == validate_allowed_headers(in, head)
    IN  IF m # Ok THEN [ran |-> <<"validate_allowed_method">>, err |-> m]
        ELSE IF o # Ok
        THEN [ran |-> <<"validate_allowed_method", "validate_origin">>,
              err |-> o]
        ELSE [ran |-> <<"validate_allowed_method", "validate_origin",
                        "validate_allowed_headers">>,
              err |-> h]

preflight_checks(in, head) ==
    LET o == validate_origin(in, head)
        m == validate_allowed_method(in, head)
        h == validate_allowed_headers(in, head)
    IN  IF o # Ok THEN [ran |-> <<"validate_origin">>, err |-> o]
        ELSE IF m # Ok
        THEN [ran |-> <<"validate_origin", "validate_allowed_method">>,
              err |-> m]
        ELSE [ran |-> <<"validate_origin", "validate_allowed_method",
                        "validate_allowed_headers">>,
              err |-> h]

(* Variant: a preflight response always carries the static wildcard.      *)
preflight_allow_origin_wildcard(in, head, hs) ==
    Insert(hs, ACCESS_CONTROL_ALLOW_ORIGIN, "*")

preflight_allow_origin(in, head, hs) ==
    InsertOpt(hs, ACCESS_CONTROL_ALLOW_ORIGIN,
              access_control_allow_origin(in, head))

preflight_allow_methods(in, head, hs) ==
    InsertOpt(hs, ACCESS_CONTROL_ALLOW_METHODS, in.allowed_methods_baked)

(* Variant: the requested headers are read from the request held in the  *)
(* first slot, as from a buffer shared by all requests.                    *)
preflight_allow_headers_shared(in, head, hs) ==
    IF in.allowed_headers_baked # None
    THEN Insert(hs, ACCESS_CONTROL_ALLOW_HEADERS, in.allowed_headers_baked[1])
    ELSE InsertOpt(hs, ACCESS_CONTROL_ALLOW_HEADERS,
                   Get(reqs[1].head.headers, ACCESS_CONTROL_REQUEST_HEADERS))

(* Variant: what the request asked for is echoed before the baked value.  *)
preflight_allow_headers_echo_first(in, head, hs) ==
    IF Get(head.headers, ACCESS_CONTROL_REQUEST_HEADERS) # None
    THEN Insert(hs, ACCESS_CONTROL_ALLOW_HEADERS,
                head.headers[ACCESS_CONTROL_REQUEST_HEADERS])
    ELSE InsertOpt(hs, ACCESS_CONTROL_ALLOW_HEADERS, in.allowed_headers_baked)

preflight_allow_headers(in, head, hs) ==
    IF in.allowed_headers_baked # None
    THEN Insert(hs, ACCESS_CONTROL_ALLOW_HEADERS, in.allowed_headers_baked[1])
    ELSE InsertOpt(hs, ACCESS_CONTROL_ALLOW_HEADERS,
                   Get(head.headers, ACCESS_CONTROL_REQUEST_HEADERS))

preflight_allow_credentials(in, head, hs) ==
    IF in.supports_credentials
    THEN Insert(hs, ACCESS_CONTROL_ALLOW_CREDENTIALS, "true")
    ELSE hs

preflight_max_age(in, head, hs) ==
    IF in.max_age # None
    THEN Insert(hs, ACCESS_CONTROL_MAX_AGE, ToString(in.max_age[1]))
    ELSE hs

handle_preflight(in, head) ==
    LET chk == preflight_checks(in, head)
    IN  IF chk.err # Ok THEN error_response(chk.err)
        ELSE Response(200,
                preflight_max_age(in, head,
                preflight_allow_credentials(in, head,
                preflight_allow_headers(in, head,
                preflight_allow_methods(in, head,
                preflight_allow_origin(in, head, EmptyHeaders))))),
                "")

---------------------------------------------------------------------------
(* CorsMiddleware::augment_response; head is res.request().head().         *)

(* Variant: an Access-Control-Allow-Origin set by the service is kept.    *)
augment_allow_origin_keep(in, head, hs) ==
    IF ACCESS_CONTROL_ALLOW_ORIGIN \in DOMAIN hs THEN hs
    ELSE InsertOpt(hs, ACCESS_CONTROL_ALLOW_ORIGIN,
                   access_control_allow_origin(in, head))

(* Variant: the request's Origin is echoed whatever the policy resolves.  *)
augment_allow_origin_echo(in, head, hs) ==
    InsertOpt(hs, ACCESS_CONTROL_ALLOW_ORIGIN, Get(head.headers, ORIGIN))

augment_allow_origin(in, head, hs) ==
    InsertOpt(hs, ACCESS_CONTROL_ALLOW_ORIGIN,
              access_control_allow_origin(in, head))

(* Variant: the request's names are exposed even when it has none.        *)
augment_expose_headers_unguarded(in, head, hs) ==
    IF in.expose_headers_baked # None
    THEN Insert(hs, ACCESS_CONTROL_EXPOSE_HEADERS, in.expose_headers_baked[1])
    ELSE IF in.expose_headers.all
    THEN Insert(hs, ACCESS_CONTROL_EXPOSE_HEADERS,
                intersperse_header_values(DOMAIN head.headers))
    ELSE hs

augment_expose_headers(in, head, hs) ==
    IF in.expose_headers_baked # None
    THEN Insert(hs, ACCESS_CONTROL_EXPOSE_HEADERS, in.expose_headers_baked[1])
    ELSE IF in.expose_headers.all /\ DOMAIN head.headers # {}
    THEN Insert(hs, ACCESS_CONTROL_EXPOSE_HEADERS,
                intersperse_header_values(DOMAIN head.headers))
    ELSE hs

(* Variant: the credentials header is inserted whatever the policy says.  *)
augment_allow_credentials_always(in, head, hs) ==
    Insert(hs, ACCESS_CONTROL_ALLOW_CREDENTIALS, "true")

augment_allow_credentials(in, head, hs) ==
    IF in.supports_credentials
    THEN Insert(hs, ACCESS_CONTROL_ALLOW_CREDENTIALS, "true")
    ELSE hs

(* Variant: Vary is set to "Origin", dropping what the service had set.   *)
augment_vary_overwrite(in, head, hs) ==
    IF in.vary_header THEN Insert(hs, VARY, "Origin") ELSE hs

augment_vary(in, head, hs) ==
    IF in.vary_header
    THEN LET hdr == Get(hs, VARY)
         IN  Insert(hs, VARY,
                    IF hdr # None THEN hdr[1] \o ", Origin" ELSE "Origin")
    ELSE hs

augment_response(in, res, head) ==
    [res EXCEPT !.headers =
        augment_vary(in, head,
        augment_allow_credentials(in, head,
        augment_expose_headers(in, head,
        augment_allow_origin(in, head, res.headers))))]

---------------------------------------------------------------------------
(* CorsMiddleware::call and the future it returns.                         *)

(* One request: where it is (pc), its head, the Origin header captured by  *)
(* call, the validations that ran, how often the wrapped service was       *)
(* called for it, what the service answered, what the middleware returned, *)
(* and the state of the request's life cycle.                              *)
NoHead == [method |-> "", headers |-> EmptyHeaders]

Request(pc, head, origin, ran, calls, svc, out, state) ==
    [pc |-> pc, head |-> head, origin |-> origin, ran |-> ran,
     calls |-> calls, svc |-> svc, out |-> out, state |-> state]

Idle == Request("idle", NoHead, None, << >>, 0, None, None, "Start")

(* Variant: only an OPTIONS request with an Origin header is a preflight. *)
is_preflight_with_origin(in, head) ==
    in.preflight /\ head.method = "OPTIONS" /\ ORIGIN \in DOMAIN head.headers

(* Variant: every OPTIONS request is a preflight, enabled or not.          *)
is_preflight_any_options(in, head) == head.method = "OPTIONS"

is_preflight(in, head) == in.preflight /\ head.method = "OPTIONS"

(* Variant: the origin is never validated on the normal path.             *)
check_origin_skip(in, head) ==
    [ran |-> << >>, err |-> Ok]

(* Variant: validate_origin sees a head holding the Origin header alone.  *)
check_origin_bare_head(in, head) ==
    IF Get(head.headers, ORIGIN) # None
    THEN [ran |-> <<"validate_origin">>,
          err |-> validate_origin(in,
                    [head EXCEPT !.headers =
                        InsertOpt(EmptyHeaders, ORIGIN,
                                  Get(head.headers, ORIGIN))])]
    ELSE [ran |-> << >>, err |-> Ok]

(* The origin check of the normal path: only with an Origin header.        *)
check_origin(in, head) ==
    IF Get(head.headers, ORIGIN) # None
    THEN [ran |-> <<"validate_origin">>, err |-> validate_origin(in, head)]
    ELSE [ran |-> << >>, err |-> Ok]

call_request(in, head) ==
    IF is_preflight(in, head)
    THEN Request("done", head, None, preflight_checks(in, head).ran, 0, None,
                 Some(OkResult(handle_preflight(in, head))),
                 "PreflightShortCircuit")
    ELSE LET origin == Get(head.headers, ORIGIN)
             chk == check_origin(in, head)
         IN  IF chk.err # Ok
             THEN Request("done", head, origin, chk.ran, 0, None,
                          Some(OkResult(error_response(chk.err))),
                          "RejectedShortCircuit")
             ELSE Request("forwarded", head, origin, chk.ran, 1, None, None,
                          "Forwarded")

(* Variant: the response is augmented for the request held in the first   *)
(* slot instead of its own request.                                        *)
call_future_first_slot(in, req, result) ==
    IF req.origin # None
    THEN IF result.ok
         THEN [req EXCEPT !.pc = "done", !.svc = Some(result),
                  !.out = Some(OkResult(
                              augment_response(in, result.res, reqs[1].head))),
                  !.state = "Augmented"]
         ELSE [req EXCEPT !.pc = "done", !.svc = Some(result),
                  !.out = Some(result), !.state = "Failed"]
    ELSE [req EXCEPT !.pc = "done", !.svc = Some(result),
             !.out = Some(result), !.state = "PassThrough"]

(* Variant: an error of the wrapped service is rendered as a response and *)
(* augmented like any other.                                               *)
call_future_augment_error(in, req, result) ==
    IF req.origin # None
    THEN [req EXCEPT !.pc = "done", !.svc = Some(result),
             !.out = Some(OkResult(augment_response(in,
                        IF result.ok THEN result.res
                        ELSE Response(500, EmptyHeaders, result.err),
                        req.head))),
             !.state = "Augmented"]
    ELSE [req EXCEPT !.pc = "done", !.svc = Some(result),
             !.out = Some(result), !.state = "PassThrough"]

(* Variant: the response is augmented whether or not an Origin was sent.  *)
call_future_always_augment(in, req, result) ==
    IF result.ok
    THEN [req EXCEPT !.pc = "done", !.svc = Some(result),
             !.out = Some(OkResult(
                         augment_response(in, result.res, req.head))),
             !.state = IF req.origin # None THEN "Augmented"
                       ELSE "PassThrough"]
    ELSE [req EXCEPT !.pc = "done", !.svc = Some(result),
             !.out = Some(result),
             !.state = IF req.origin # None THEN "Failed" ELSE "PassThrough"]

(* The async block: the result of the wrapped service, once it is ready.   *)
call_future(in, req, result) ==
    IF req.origin # None
    THEN IF result.ok
         THEN [req EXCEPT !.pc = "done", !.svc = Some(result),
                  !.out = Some(OkResult(
                              augment_response(in, result.res, req.head))),
                  !.state = "Augmented"]
         ELSE [req EXCEPT !.pc = "done", !.svc = Some(result),
                  !.out = Some(result), !.state = "Failed"]
    ELSE [req EXCEPT !.pc = "done", !.svc = Some(result),
             !.out = Some(result), !.state = "PassThrough"]

(* call on a request whose head is one of heads.                           *)
call_among(i, heads) ==
    /\ reqs[i].pc = "idle"
    /\ \E head \in heads :
          reqs' = [reqs EXCEPT ![i] = call_request(inner, head)]
    /\ UNCHANGED inner

(* The future of request i is polled when the wrapped service has answered *)
(* with one of results.                                                    *)
poll_among(i, results) ==
    /\ reqs[i].pc = "forwarded"
    /\ \E result \in results :
          reqs' = [reqs EXCEPT ![i] = call_future(inner, reqs[i], result)]
    /\ UNCHANGED inner

call(i) == call_among(i, Heads)

poll(i) == poll_among(i, ServiceResults)

(* The returned future's output is taken by the host; the slot is free.    *)
deliver(i) ==
    /\ reqs[i].pc = "done"
    /\ reqs' = [reqs EXCEPT ![i] = Idle]
    /\ UNCHANGED inner

Init ==
    /\ inner \in Policies
    /\ reqs = <<Idle>>

Call == \E i \in DOMAIN reqs : call(i)

Poll == \E i \in DOMAIN reqs : poll(i)

Deliver == \E i \in DOMAIN reqs : deliver(i)

Next == Call \/ Poll \/ Deliver

Spec == Init /\ [][Next]_vars

---------------------------------------------------------------------------
(* Several requests in flight.  The worker runs call to its end for one    *)
(* request at a time, and the futures of forwarded requests complete in    *)
(* any order.  The inputs are fewer: requests that all carry DNT and ask   *)
(* for GET, two answers of the wrapped service, policies with Vary and   *)
(* max-age on and every header exposed.                                    *)

MaxInFlight == 2

ConcHeads ==
    {MkHead(m, o, Some("1"), Some("GET"), rh) :
        m \in Methods, o \in Opt(Origins), rh \in Opt({"x-secret"})}

ConcResults ==
    {OkResult(Response(200,
        Insert(Insert(EmptyHeaders, VARY, "Accept"),
               ACCESS_CONTROL_ALLOW_CREDENTIALS, "true"), "")),
     ErrResult("ServiceError")}

ConcPolicies ==
    {MkInner(o, c, TRUE, p, All, h, Some(3600)) :
        o \in {op \in OriginPolicies : op.fn # "has_dnt"},
        c \in BOOLEAN, p \in BOOLEAN,
        h \in {All, SomeOf({"accept", "content-type"})}}

InitConc ==
    /\ inner \in ConcPolicies
    /\ reqs = [i \in 1..MaxInFlight |-> Idle]

CallConc == \E i \in DOMAIN reqs : call_among(i, ConcHeads)

PollConc == \E i \in DOMAIN reqs : poll_among(i, ConcResults)

DeliverConc == \E i \in DOMAIN reqs : deliver(i)

NextConc == CallConc \/ PollConc \/ DeliverConc

SpecConc == InitConc /\ [][NextConc]_vars

---------------------------------------------------------------------------
(* augment_response on its own: applied to any response of the wrapped     *)
(* service and any request head, with or without headers.                  *)

AugmentHeads ==
    {MkHead("GET", o, d, None, rh) :
        o \in Opt(Origins), d \in Opt({"1"}), rh \in Opt({"x-secret"})}

augment(i) ==
    /\ reqs[i].pc = "idle"
    /\ \E head \in AugmentHeads, res \in DownstreamResponses :
          reqs' = [reqs EXCEPT ![i] =
                      Request("done", head, Get(head.headers, ORIGIN), << >>,
                              1, Some(OkResult(res)),
                              Some(OkResult(augment_response(inner, res, head))),
                              "Augmented")]
    /\ UNCHANGED inner

Augment == \E i \in DOMAIN reqs : augment(i)

DeliverAugmented == \E i \in DOMAIN reqs : deliver(i)

NextAugment == Augment \/ DeliverAugmented

SpecAugment == Init /\ [][NextAugment]_vars

---------------------------------------------------------------------------
(* Properties.                                                             *)

Slots == DOMAIN reqs

OriginOf(r) == Get(r.head.headers, ORIGIN)

OriginKind == inner.allowed_origins.kind

(* The request was taken by the preflight branch of call.                  *)
AsPreflight(r) == inner.preflight /\ r.head.method = "OPTIONS"

(* The response the middleware returned for a finished request.            *)
Returned(r) == r.out[1].res

AllowOrigin(r) == Get(Returned(r).headers, ACCESS_CONTROL_ALLOW_ORIGIN)

(* A successful response: a synthesized preflight response or an augmented *)
(* response of the wrapped service.                                        *)
Successful(r) ==
    /\ r.pc = "done"
    /\ r.out[1].ok
    /\ Returned(r).error = ""
    /\ r.state \in {"PreflightShortCircuit", "Augmented"}

(* C1: with supports_credentials, Access-Control-Allow-Origin of a         *)
(* successful response (preflight or augmented) is never "*"; with the     *)
(* AllowAll origin policy it is the request's Origin header value (and is  *)
(* absent exactly when the request has no Origin header).                  *)
C1_CredentialsNeverWildcard ==
    \A i \in Slots :
        LET r == reqs[i]
        IN  (Successful(r) /\ inner.supports_credentials) =>
                /\ AllowOrigin(r) # Some("*")
                /\ OriginKind = "AllowAll" => AllowOrigin(r) = OriginOf(r)

(* C1 witness: AllowAll with credentials; the service had set "*" itself   *)
(* and the augmented response carries the request's origin.                *)
C1_Witness ==
    \E i \in Slots :
        LET r == reqs[i]
        IN  /\ Successful(r) /\ r.state = "Augmented"
            /\ inner.supports_credentials /\ OriginKind = "AllowAll"
            /\ Get(r.svc[1].res.headers, ACCESS_CONTROL_ALLOW_ORIGIN)
                  = Some("*")
            /\ AllowOrigin(r) = Some("http://evil.com")

C3_UnlistedOriginRejected ==
    \A i \in Slots :
        LET r == reqs[i]
        IN  (/\ r.pc # "idle"
             /\ OriginKind = "AllowList"
             /\ ~AsPreflight(r)
             /\ OriginOf(r) # None
             /\ OriginOf(r)[1] \notin inner.allowed_origins.list) =>
                /\ r.pc = "done"
                /\ r.state = "RejectedShortCircuit"
                /\ r.calls = 0 /\ r.svc = None
                /\ r.out[1].ok
                /\ Returned(r).error = "OriginNotAllowed"
                /\ AllowOrigin(r) = None

(* C3 witness: GET from http://evil.com under AllowList, rejected.         *)
C3_Witness ==
    \E i \in Slots :
        LET r == reqs[i]
        IN  /\ r.pc = "done" /\ OriginKind = "AllowList"
            /\ r.head.method = "GET"
            /\ OriginOf(r) = Some("http://evil.com")
            /\ Returned(r).error = "OriginNotAllowed"

(* C4: under a predicate policy a request with an Origin header is allowed *)
(* iff the predicate holds of that request's Origin value and head: if it  *)
(* does not, the request is rejected with OriginNotAllowed and the         *)
(* response has no Access-Control-Allow-Origin; if it does, the request is *)
(* not rejected for its origin and a successful response carries the       *)
(* request's Origin as Access-Control-Allow-Origin.                        *)
C4_PredicateDecides ==
    \A i \in Slots :
        LET r == reqs[i]
            allowed == ApplyFn(inner.allowed_origins.fn, OriginOf(r)[1], r.head)
        IN  (/\ r.pc # "idle"
             /\ OriginKind = "AllowByPredicate"
             /\ OriginOf(r) # None) =>
                /\ ~allowed =>
                      /\ r.pc = "done" /\ r.calls = 0
                      /\ r.out[1].ok
                      /\ Returned(r).error = "OriginNotAllowed"
                      /\ AllowOrigin(r) = None
                /\ allowed =>
                      /\ (r.pc = "done" /\ r.out[1].ok) =>
                            Returned(r).error # "OriginNotAllowed"
                      /\ ~AsPreflight(r) => r.calls = 1
                      /\ Successful(r) => AllowOrigin(r) = OriginOf(r)

(* C4 witness: the predicate that wants DNT; a GET with Origin and DNT is  *)
(* answered with the origin echoed.                                        *)
C4_Witness ==
    \E i \in Slots :
        LET r == reqs[i]
        IN  /\ Successful(r) /\ r.state = "Augmented"
            /\ OriginKind = "AllowByPredicate"
            /\ inner.allowed_origins.fn = "has_dnt"
            /\ DNT \in DOMAIN r.head.headers
            /\ AllowOrigin(r) = Some("http://example.com")

(* C5: under an AllowList or predicate policy every successful response    *)
(* carries the request's Origin header value as                            *)
(* Access-Control-Allow-Origin (absent exactly when the request has no     *)
(* Origin header), and never the wildcard.                                 *)
C5_ListedOriginEchoed ==
    \A i \in Slots :
        LET r == reqs[i]
        IN  (Successful(r) /\ OriginKind \in {"AllowList", "AllowByPredicate"}) =>
                /\ AllowOrigin(r) = OriginOf(r)
                /\ AllowOrigin(r) # Some("*")

(* C5 witness: the preflight scenario: OPTIONS from http://example.com     *)
(* asking for GET under AllowList, answered 200 with that origin.          *)
C5_Witness ==
    \E i \in Slots :
        LET r == reqs[i]
        IN  /\ Successful(r) /\ r.state = "PreflightShortCircuit"
            /\ OriginKind = "AllowList"
            /\ Get(r.head.headers, ACCESS_CONTROL_REQUEST_METHOD) = Some("GET")
            /\ Returned(r).status = 200
            /\ AllowOrigin(r) = Some("http://example.com")
            /\ Get(Returned(r).headers, ACCESS_CONTROL_ALLOW_METHODS)
                  = Some("GET, POST")

(* C6: with preflight enabled an OPTIONS request ends in                    *)
(* PreflightShortCircuit as soon as call has handled it: a response is     *)
(* returned, the request is never forwarded and the wrapped service is     *)
(* never called for it, whether the validations pass or reject.            *)
C6_PreflightShortCircuits ==
    \A i \in Slots :
        LET r == reqs[i]
        IN  (r.pc # "idle" /\ inner.preflight /\ r.head.method = "OPTIONS") =>
                /\ r.pc = "done"
                /\ r.state = "PreflightShortCircuit"
                /\ r.out # None /\ r.out[1].ok
                /\ r.calls = 0 /\ r.svc = None

(* C6 witness: a preflight without Origin whose requested method is        *)
(* rejected, answered without the wrapped service.                         *)
C6_Witness ==
    \E i \in Slots :
        LET r == reqs[i]
        IN  /\ r.pc = "done" /\ inner.preflight /\ r.head.method = "OPTIONS"
            /\ OriginOf(r) = None
            /\ Returned(r).error = "MethodNotAllowed"
            /\ r.calls = 0

(* C7: a preflight is validated in the order validate_origin,              *)
(* validate_allowed_method, validate_allowed_headers, stopping at the      *)
(* first failure: the rejection returned is that of the first failing      *)
(* check and no later check runs.                                          *)
C7_ValidationOrder ==
    \A i \in Slots :
        LET r == reqs[i]
            o == validate_origin(inner, r.head)
            m == validate_allowed_method(inner, r.head)
            h == validate_allowed_headers(inner, r.head)
        IN  (r.pc = "done" /\ AsPreflight(r)) =>
                /\ o # Ok =>
                      /\ r.ran = <<"validate_origin">>
                      /\ Returned(r).error = "OriginNotAllowed"
                /\ (o = Ok /\ m # Ok) =>
                      /\ r.ran = <<"validate_origin", "validate_allowed_method">>
                      /\ Returned(r).error = "MethodNotAllowed"
                /\ (o = Ok /\ m = Ok /\ h # Ok) =>
                      /\ r.ran = <<"validate_origin", "validate_allowed_method",
                                   "validate_allowed_headers">>
                      /\ Returned(r).error = "HeaderNotAllowed"
                /\ (o = Ok /\ m = Ok /\ h = Ok) =>
                      /\ r.ran = <<"validate_origin", "validate_allowed_method",
                                   "validate_allowed_headers">>
                      /\ Returned(r).error = ""
                      /\ Returned(r).status = 200

(* C7 witness: origin, method and headers would all fail; the origin       *)
(* failure is the one reported and nothing else ran.                       *)
C7_Witness ==
    \E i \in Slots :
        LET r == reqs[i]
        IN  /\ r.pc = "done" /\ AsPreflight(r)
            /\ validate_origin(inner, r.head) # Ok
            /\ validate_allowed_method(inner, r.head) # Ok
            /\ validate_allowed_headers(inner, r.head) # Ok
            /\ Returned(r).error = "OriginNotAllowed"
            /\ r.ran = <<"validate_origin">>

(* C8: a request outside the preflight branch that passes origin handling  *)
(* is forwarded to the wrapped service exactly once; when the service      *)
(* answers with a response, the client gets that response augmented if the *)
(* request carried an Origin header, and exactly that response, headers    *)
(* untouched, if it carried none.                                          *)
C8_ForwardedOnce ==
    \A i \in Slots :
        LET r == reqs[i]
        IN  (/\ r.pc # "idle"
             /\ ~AsPreflight(r)
             /\ (OriginOf(r) = None \/ validate_origin(inner, r.head) = Ok)) =>
                /\ r.calls = 1
                /\ r.pc = "forwarded" => (r.state = "Forwarded" /\ r.out = None)
                /\ (r.pc = "done" /\ r.svc[1].ok) =>
                      IF OriginOf(r) # None
                      THEN /\ r.state = "Augmented"
                           /\ r.out[1].ok
                           /\ Returned(r) =
                                augment_response(inner, r.svc[1].res, r.head)
                           /\ Returned(r).status = r.svc[1].res.status
                           /\ AllowOrigin(r) # None
                      ELSE /\ r.state = "PassThrough"
                           /\ r.out = r.svc

(* C8 witness: no Origin header, vary_header and credentials on; the       *)
(* response of the service comes back without any header added.            *)
C8_Witness ==
    \E i \in Slots :
        LET r == reqs[i]
        IN  /\ r.pc = "done" /\ r.state = "PassThrough"
            /\ inner.vary_header /\ inner.supports_credentials
            /\ r.calls = 1 /\ r.svc[1].ok
            /\ DOMAIN Returned(r).headers = {CONTENT_TYPE}

C10_ExposesResponseHeaders ==
    \A i \in Slots :
        LET r == reqs[i]
            names == DOMAIN r.svc[1].res.headers
        IN  (/\ r.pc = "done" /\ r.state = "Augmented"
             /\ inner.expose_headers.all /\ inner.expose_headers_baked = None
             /\ names # {}) =>
                Get(Returned(r).headers, ACCESS_CONTROL_EXPOSE_HEADERS) \in
                    {Some(intersperse_header_values(names)),
                     Some(intersperse_header_values(
                            names \cup {ACCESS_CONTROL_ALLOW_ORIGIN}))}

(* C11: in a successful preflight response Access-Control-Allow-Headers is *)
(* the baked allowed-headers value when the policy has one, whatever the   *)
(* request asked for; without a baked value it is the raw                  *)
(* Access-Control-Request-Headers value of the request, and is absent when *)
(* the request has no such header.                                         *)
C11_AllowHeadersBakedOrEchoed ==
    \A i \in Slots :
        LET r == reqs[i]
            asked == Get(r.head.headers, ACCESS_CONTROL_REQUEST_HEADERS)
            got == Get(Returned(r).headers, ACCESS_CONTROL_ALLOW_HEADERS)
        IN  (Successful(r) /\ r.state = "PreflightShortCircuit") =>
                /\ inner.allowed_headers_baked # None =>
                      got = inner.allowed_headers_baked
                /\ inner.allowed_headers_baked = None => got = asked

(* C11 witness: a closed list of allowed headers; the request asks for     *)
(* Content-Type alone and is answered with the whole baked list.           *)
C11_Witness ==
    \E i \in Slots :
        LET r == reqs[i]
        IN  /\ Successful(r) /\ r.state = "PreflightShortCircuit"
            /\ ~inner.allowed_headers.all
            /\ Get(r.head.headers, ACCESS_CONTROL_REQUEST_HEADERS)
                  = Some("Content-Type")
            /\ Get(Returned(r).headers, ACCESS_CONTROL_ALLOW_HEADERS)
                  = Some("accept, content-type")

AllowCredentials(r) ==
    Get(Returned(r).headers, ACCESS_CONTROL_ALLOW_CREDENTIALS)

(* C12 as claimed: a successful response (preflight or augmented) carries  *)
(* Access-Control-Allow-Credentials: true iff supports_credentials; with   *)
(* supports_credentials = false it carries no such header, whatever the    *)
(* wrapped service had set.                                                *)
C12_CredentialsIffSupported ==
    \A i \in Slots :
        LET r == reqs[i]
        IN  Successful(r) =>
                AllowCredentials(r) =
                    IF inner.supports_credentials THEN Some("true") ELSE None

(* C12 amended: the middleware inserts Access-Control-Allow-Credentials:   *)
(* true iff supports_credentials.  A successful preflight response has it  *)
(* exactly then; an augmented response has it with supports_credentials,   *)
(* and without supports_credentials keeps what the wrapped service had     *)
(* set for that header (nothing, if it had set none).                      *)
C12_CredentialsInsertedIffSupported ==
    \A i \in Slots :
        LET r == reqs[i]
        IN  Successful(r) =>
                /\ inner.supports_credentials =>
                      AllowCredentials(r) = Some("true")
                /\ (~inner.supports_credentials
                      /\ r.state = "PreflightShortCircuit") =>
                      AllowCredentials(r) = None
                /\ (~inner.supports_credentials /\ r.state = "Augmented") =>
                      AllowCredentials(r) =
                          Get(r.svc[1].res.headers,
                              ACCESS_CONTROL_ALLOW_CREDENTIALS)

(* C12 witness: no credentials support; the service had set the header     *)
(* itself and the augmented response still carries it.                     *)
C12_Witness ==
    \E i \in Slots :
        LET r == reqs[i]
        IN  /\ Successful(r) /\ r.state = "Augmented"
            /\ ~inner.supports_credentials
            /\ Get(r.svc[1].res.headers, ACCESS_CONTROL_ALLOW_CREDENTIALS)
                  = Some("true")
            /\ AllowCredentials(r) = Some("true")

Alone(head, svc) ==
    LET first == call_request(inner, head)
    IN  IF first.pc = "done" \/ svc = None THEN first
        ELSE call_future(inner, first, svc[1])

C14_SameAsAlone ==
    /\ \A i \in Slots :
          reqs[i].pc # "idle" => reqs[i] = Alone(reqs[i].head, reqs[i].svc)
    /\ \A i, j \in Slots :
          (/\ reqs[i].pc = "done" /\ reqs[j].pc = "done"
           /\ reqs[i].head = reqs[j].head /\ reqs[i].svc = reqs[j].svc) =>
              reqs[i].out = reqs[j].out

Ran(r) == {r.ran[k] : k \in DOMAIN r.ran}

(* C15: the preflight branch is taken only with preflight enabled and the  *)
(* method OPTIONS.  Any other request (OPTIONS with preflight disabled, or *)
(* another method whatever Access-Control-Request-* headers it has) gets   *)
(* no synthesized preflight response and no method or header validation:   *)
(* its origin is validated only if it has an Origin header, and it is      *)
(* then forwarded to the wrapped service.                                  *)
C15_PreflightOnlyWhenEnabled ==
    \A i \in Slots :
        LET r == reqs[i]
        IN  (r.pc # "idle" /\ ~(inner.preflight /\ r.head.method = "OPTIONS")) =>
                /\ r.state # "PreflightShortCircuit"
                /\ Ran(r) = IF OriginOf(r) # None THEN {"validate_origin"}
                            ELSE {}
                /\ IF OriginOf(r) # None /\ validate_origin(inner, r.head) # Ok
                   THEN /\ r.state = "RejectedShortCircuit"
                        /\ r.calls = 0
                   ELSE /\ r.calls = 1
                        /\ r.state \in {"Forwarded", "Augmented",
                                        "PassThrough", "Failed"}
                        /\ r.pc = "done" => r.out \in
                              {r.svc,
                               Some(OkResult(augment_response(inner,
                                        r.svc[1].res, r.head)))}

(* C15 witness: preflight disabled; an OPTIONS request asking for DELETE   *)
(* and x-secret, which the preflight checks would reject, is forwarded and *)
(* answered by the wrapped service.                                        *)
C15_Witness ==
    \E i \in Slots :
        LET r == reqs[i]
        IN  /\ r.pc = "done" /\ ~inner.preflight
            /\ r.head.method = "OPTIONS"
            /\ validate_allowed_method(inner, r.head) # Ok
            /\ validate_allowed_headers(inner, r.head) # Ok
            /\ r.calls = 1 /\ r.svc # None /\ r.svc[1].ok
            /\ Returned(r).status = 200

(* C16: when the wrapped service ends with an error for a forwarded        *)
(* request that carried an allowed Origin, the middleware returns that     *)
(* error; augment_response is not applied, so nothing carries an           *)
(* Access-Control-* or Vary header, and the request does not end           *)
(* Augmented.                                                              *)
C16_ServiceErrorNotAugmented ==
    \A i \in Slots :
        LET r == reqs[i]
        IN  (/\ r.pc = "done" /\ OriginOf(r) # None
             /\ r.svc # None /\ ~r.svc[1].ok) =>
                /\ r.out = r.svc
                /\ ~r.out[1].ok /\ r.out[1].err = r.svc[1].err
                /\ r.state = "Failed"
                /\ DOMAIN Returned(r).headers = {}

(* C16 witness: credentials and Vary are on, the origin is allowed, the    *)
(* wrapped service fails, and the error comes back as it is.               *)
C16_Witness ==
    \E i \in Slots :
        LET r == reqs[i]
        IN  /\ r.pc = "done" /\ OriginOf(r) = Some("http://example.com")
            /\ inner.supports_credentials /\ inner.vary_header
            /\ r.calls = 1
            /\ r.out = Some(ErrResult("ServiceError"))

AugmentedHeaders ==
    {ACCESS_CONTROL_ALLOW_ORIGIN, ACCESS_CONTROL_EXPOSE_HEADERS,
     ACCESS_CONTROL_ALLOW_CREDENTIALS, VARY}

(* C17: augment_response changes nothing of the response but the headers   *)
(* Access-Control-Allow-Origin, Access-Control-Expose-Headers,             *)
(* Access-Control-Allow-Credentials and Vary: the status and every other   *)
(* header stay, no header is removed; Vary stays when vary_header is off,  *)
(* Access-Control-Allow-Credentials stays when supports_credentials is     *)
(* off, and Access-Control-Expose-Headers stays when every header is to be *)
(* exposed and the request has no header.                                  *)
C17_AugmentFrame ==
    \A i \in Slots :
        LET r == reqs[i]
            before == r.svc[1].res
            after == Returned(r)
        IN  (r.pc = "done" /\ r.state = "Augmented") =>
                /\ after.status = before.status
                /\ after.error = before.error
                /\ DOMAIN before.headers \subseteq DOMAIN after.headers
                /\ DOMAIN after.headers \subseteq
                      DOMAIN before.headers \cup AugmentedHeaders
                /\ \A n \in DOMAIN after.headers \ AugmentedHeaders :
                      Get(after.headers, n) = Get(before.headers, n)
                /\ ~inner.vary_header =>
                      Get(after.headers, VARY) = Get(before.headers, VARY)
                /\ ~inner.supports_credentials =>
                      Get(after.headers, ACCESS_CONTROL_ALLOW_CREDENTIALS)
                          = Get(before.headers, ACCESS_CONTROL_ALLOW_CREDENTIALS)
                /\ (/\ inner.expose_headers.all
                    /\ inner.expose_headers_baked = None
                    /\ DOMAIN r.head.headers = {}) =>
                      Get(after.headers, ACCESS_CONTROL_EXPOSE_HEADERS)
                          = Get(before.headers, ACCESS_CONTROL_EXPOSE_HEADERS)

(* C17 witness: every header exposed, a request without any header, a 404  *)
(* with its own Access-Control-Expose-Headers and Content-Type: both are   *)
(* still there, and Vary was added.                                        *)
C17_Witness ==
    \E i \in Slots :
        LET r == reqs[i]
        IN  /\ r.pc = "done" /\ r.state = "Augmented"
            /\ inner.expose_headers.all /\ inner.vary_header
            /\ DOMAIN r.head.headers = {}
            /\ r.svc[1].res.status = 404 /\ Returned(r).status = 404
            /\ Get(Returned(r).headers, ACCESS_CONTROL_EXPOSE_HEADERS)
                  = Some("x-old")
            /\ Get(Returned(r).headers, CONTENT_TYPE) = Some("text/plain")
            /\ Get(Returned(r).headers, VARY) = Some("Origin")

====
